---- MODULE Spec2Model ----
(***************************************************************************)
(* Fixed-tick model of the ballistics core of bevy_bullet_dynamics.        *)
(*                                                                         *)
(* Units.  Lengths are centimetres, times are centiseconds, speeds are     *)
(* metres per second (so speed * dt is a length in cm), masses are grams,  *)
(* angles are milliradians, falloff exponents are tenths.                  *)
(*                                                                         *)
(* A Vec3 velocity is held in polar form [dir, speed]: dir is an integer   *)
(* vector of integer length (1 or 5) and the vector is dir * speed / |dir|.*)
(* The world is a corridor along the x axis closed by plane walls          *)
(* perpendicular to it, so the spatial query only needs the x coordinate   *)
(* of a Transform's translation; surface normals are <<1,0>> or <<-1,0>>.  *)
(* The environment is a vacuum without gravity (both are host-set          *)
(* resources), hence the integrator leaves the velocity unchanged.         *)
(*                                                                         *)
(* Spec is the FixedUpdate schedule over the projectiles.  AccuracySpec is *)
(* one weapon's Accuracy under shots, recovery ticks and spread queries    *)
(* (angles in microradians, multipliers in tenths).  SurfaceSpec applies   *)
(* the functions of systems/surface.rs to one impact.  ExplosionSpec       *)
(* applies explosion events to bodies on the vertical through the centre   *)
(* (damage in thousandths, body velocities in mm/s).  GuidanceSpec steers  *)
(* guided projectiles in a plane, headings on a circle of 6284 units.      *)
(* VfxSpec is the frames of the tracer and decal pools.                    *)
(***************************************************************************)
EXTENDS Integers, Sequences, FiniteSets, TLC

\* ---- bounds of the model ------------------------------------------------
MaxProj == 1
MaxTick == 2

\* ---- program constants --------------------------------------------------
Dt == 2
DefaultDamage == 25
RicochetOffset == 5

Entities == 1..MaxProj

Min(a, b) == IF a < b THEN a ELSE b
Max(a, b) == IF a > b THEN a ELSE b
Abs(a) == IF a < 0 THEN -a ELSE a

\* ---- vectors --------------------------------------------------------------
Dot(a, b) == a[1] * b[1] + a[2] * b[2]
Neg(a) == <<-a[1], -a[2]>>
\* |a| for the vectors of the model: the integer n with n*n = a.a
Length(a) == CHOOSE n \in 0..5 : n * n = Dot(a, a)
\* glam: direction - 2.0 * direction.dot(normal) * normal
Reflect(d, n) == <<d[1] - 2 * Dot(d, n) * n[1], d[2] - 2 * Dot(d, n) * n[2]>>

ZeroVelocity == [dir |-> <<0, 0>>, speed |-> 0]

\* f32::acos on the cosines k/5, in milliradians
AcosMilli(k5) ==
    CASE k5 = 5 -> 0
      [] k5 = 4 -> 644
      [] k5 = 3 -> 927
      [] k5 = 2 -> 1159
      [] k5 = 1 -> 1369
      [] k5 = 0 -> 1571
      [] k5 = -1 -> 1772
      [] k5 = -2 -> 1982
      [] k5 = -3 -> 2214
      [] k5 = -4 -> 2498
      [] k5 = -5 -> 3142

\* ---- components -----------------------------------------------------------
NoSurface == [kind |-> "NoSurface"]
Metal == [kind |-> "Metal", ricochet_angle |-> 150, penetration_loss |-> 100, thickness |-> 1]
Glass == [kind |-> "Glass", ricochet_angle |-> 800, penetration_loss |-> 10, thickness |-> 1]
Flesh == [kind |-> "Flesh", ricochet_angle |-> 1500, penetration_loss |-> 40, thickness |-> 30]

NoPayload == [kind |-> "None", damage |-> 0, radius |-> 0, falloff |-> 0,
              damage_per_second |-> 0]
Kinetic == [kind |-> "Kinetic", damage |-> 35, radius |-> 0, falloff |-> 0,
            damage_per_second |-> 0]
Explosive == [kind |-> "Explosive", damage |-> 150, radius |-> 1000, falloff |-> 15,
              damage_per_second |-> 0]
Incendiary == [kind |-> "Incendiary", damage |-> 0, radius |-> 500, falloff |-> 0,
               damage_per_second |-> 15]
Flash == [kind |-> "Flash", damage |-> 0, radius |-> 1500, falloff |-> 0,
          damage_per_second |-> 0]
Smoke == [kind |-> "Smoke", damage |-> 0, radius |-> 800, falloff |-> 0,
          damage_per_second |-> 0]

Impact == [kind |-> "Impact", fuse |-> 0, elapsed |-> 0, range |-> 0]
Sticky == [kind |-> "Sticky", fuse |-> 0, elapsed |-> 0, range |-> 0]
Timed(f) == [kind |-> "Timed", fuse |-> f, elapsed |-> 0, range |-> 0]
Proximity(r) == [kind |-> "Proximity", fuse |-> 0, elapsed |-> 0, range |-> r]
Hitscan(r) == [kind |-> "Hitscan", fuse |-> 0, elapsed |-> 0, range |-> r]

NoEntity == [alive |-> FALSE]

\* ---- the world outside the core -------------------------------------------
\* static geometry: plane walls x = const, with or without a SurfaceMaterial
Walls == { [id |-> 101, x |-> -200, surface |-> NoSurface],
           [id |-> 102, x |-> 200, surface |-> Metal],
           [id |-> 103, x |-> 1200, surface |-> Glass] }
\* entities a proximity fuse reacts to
Targets == { [id |-> 201, x |-> 120] }

\* what the host fires: [x, dir, speed, mass]
ShotSteep == [x |-> 0, dir |-> <<1, 0>>, speed |-> 400, mass |-> 10]
ShotShallow == [x |-> 0, dir |-> <<3, 4>>, speed |-> 400, mass |-> 10]
ShotWeak == [x |-> 160, dir |-> <<4, 3>>, speed |-> 30, mass |-> 10]
ShotHeavy == [x |-> 150, dir |-> <<1, 0>>, speed |-> 190, mass |-> 50]
ShotGlass == [x |-> 1000, dir |-> <<4, 3>>, speed |-> 400, mass |-> 10]
ShotGlassShallow == [x |-> 1000, dir |-> <<3, 4>>, speed |-> 400, mass |-> 10]
ShotBack == [x |-> 0, dir |-> <<-1, 0>>, speed |-> 400, mass |-> 10]
ShotLob == [x |-> 0, dir |-> <<1, 0>>, speed |-> 40, mass |-> 10]
ShotDrop == [x |-> 0, dir |-> <<1, 0>>, speed |-> 10, mass |-> 10]
ShotRifle == [x |-> 150, dir |-> <<1, 0>>, speed |-> 600, mass |-> 10]

HitShots == {ShotSteep, ShotShallow, ShotWeak, ShotHeavy, ShotGlass, ShotGlassShallow, ShotBack}

Loadouts ==
    [logic : {Impact}, payload : {Kinetic}, shot : HitShots]
    \cup [logic : {Impact}, payload : {NoPayload, Explosive, Smoke}, shot : {ShotBack}]
    \cup [logic : {Timed(3)}, payload : {NoPayload, Kinetic, Explosive, Incendiary, Flash, Smoke},
          shot : {ShotLob}]
    \cup [logic : {Timed(4)}, payload : {Explosive}, shot : {ShotLob, ShotWeak}]
    \cup [logic : {Proximity(50)}, payload : {Explosive}, shot : {ShotLob}]
    \cup [logic : {Hitscan(1000)}, payload : {Kinetic}, shot : {ShotSteep, ShotLob, ShotGlass}]
    \cup [logic : {Sticky}, payload : {Kinetic}, shot : {ShotSteep, ShotShallow, ShotWeak, ShotBack}]
    \cup [logic : {Impact, Sticky}, payload : {Kinetic}, shot : {ShotDrop}]
    \cup [logic : {Impact}, payload : {Kinetic}, shot : {ShotRifle}]

VARIABLES world, config, hit_events, explosion_events, penetration_events,
          ricochet_events, commands, pc, tick, spawned,
          accuracy, call, result, tracer_pool, decal_pool

\* the projectile world of the FixedUpdate schedule
ballistics_vars == <<world, config, hit_events, explosion_events, penetration_events,
                     ricochet_events, commands, pc, tick, spawned>>

\* a weapon's Accuracy component, and the library call the host makes with its result
weapon_vars == <<accuracy, call, result>>
pool_vars == <<tracer_pool, decal_pool>>

vars == <<world, config, hit_events, explosion_events, penetration_events,
          ricochet_events, commands, pc, tick, spawned, accuracy, call, result,
          tracer_pool, decal_pool>>

Alive(e) == world[e].alive

\* position of the FixedUpdate schedule inside the current tick
TickStart == [chain |-> 0, collisions |-> FALSE, hitscan |-> FALSE]

\* no weapon entity in the world, no library call made
NoAccuracy == [kind |-> "None"]
NoCall == [op |-> "none"]
NoResult == [op |-> "none"]

\* TracerPool::default() / DecalPool::default(), what init_resource inserts
NoPool == [available |-> <<>>, max_size |-> 0]

\* BallisticsConfig: the flags are host-set, min_projectile_speed is the default;
\* the lifetime (centiseconds) and the distance (cm) are set by the host so that a
\* projectile can outlive or outrun them within MaxTick ticks
Configs == [enable_ricochet : BOOLEAN, enable_penetration : BOOLEAN,
            min_projectile_speed : {20},
            max_projectile_lifetime : {5},
            max_projectile_distance : {1000}]

Init ==
    /\ world = [e \in Entities |-> NoEntity]
    /\ config \in Configs
    /\ hit_events = <<>>
    /\ explosion_events = <<>>
    /\ penetration_events = <<>>
    /\ ricochet_events = <<>>
    /\ commands = <<>>
    /\ pc = TickStart
    /\ tick = 0
    /\ spawned = 0
    /\ accuracy = NoAccuracy
    /\ call = NoCall
    /\ result = NoResult
    /\ tracer_pool = NoPool
    /\ decal_pool = NoPool

\* The host spawns a projectile between two ticks (examples/basic_shooting.rs):
\* Transform::from_translation(origin), Projectile { velocity, mass, ..default() },
\* a Payload and a ProjectileLogic.  previous_position is left at its default, zero,
\* or set to the origin (examples/grenades.rs).
Spawn ==
    /\ pc = TickStart
    /\ spawned < MaxProj
    /\ tick < MaxTick
    /\ \E l \in Loadouts : \E prev \in {0, l.shot.x} :
         world' = [world EXCEPT ![spawned + 1] =
                     [alive |-> TRUE,
                      translation |-> l.shot.x,
                      forward |-> l.shot.dir,
                      velocity |-> [dir |-> l.shot.dir, speed |-> l.shot.speed],
                      mass |-> l.shot.mass,
                      previous_position |-> prev,
                      logic |-> l.logic,
                      payload |-> l.payload,
                      born |-> tick,
                      integrated |-> 0,
                      age |-> 0,
                      distance_travelled |-> 0]]
    /\ spawned' = spawned + 1
    /\ UNCHANGED <<config, hit_events, explosion_events, penetration_events,
                   ricochet_events, commands, pc, tick>>
    /\ UNCHANGED weapon_vars
    /\ UNCHANGED pool_vars

\* ---- systems/surface.rs ---------------------------------------------------
\* 5 * velocity.normalize().dot(b) for an integer vector b
Cos5(velocity, b) == (5 * Dot(velocity.dir, b)) \div Length(velocity.dir)

\* the angle taken to the normal itself, not to the inverted normal
should_ricochet_NormalNotInverted(velocity, surface_normal, surface) ==
    LET impact_angle == AcosMilli(Cos5(velocity, surface_normal))
    IN  impact_angle > surface.ricochet_angle

should_ricochet(velocity, surface_normal, surface) ==
    LET impact_angle == AcosMilli(Cos5(velocity, Neg(surface_normal)))
    IN  impact_angle > surface.ricochet_angle

\* the loss taken without its ceiling of 0.8
calculate_ricochet_NoCap(velocity, surface_normal, surface) ==
    LET retention200 == 200 - surface.penetration_loss
    IN  [dir |-> Reflect(velocity.dir, surface_normal),
         speed |-> (velocity.speed * retention200) \div 200]

\* speed_retention = 1.0 - (penetration_loss / 200.0).min(0.8)
calculate_ricochet(velocity, surface_normal, surface) ==
    LET speed == velocity.speed
        direction == velocity.dir
        reflected == Reflect(direction, surface_normal)
        retention200 == 200 - Min(surface.penetration_loss, 160)
        new_speed == (speed * retention200) \div 200
    IN  [dir |-> reflected, speed |-> new_speed]

\* the remaining speed taken without its floor of 0.1
calculate_exit_velocity_NoFloor(entry_velocity, surface, travel_distance) ==
    LET ratio1000 == Min((travel_distance * 1000) \div surface.thickness, 1000)
        keep100000 == 100000 - surface.penetration_loss * ratio1000
    IN  [dir |-> entry_velocity.dir,
         speed |-> (entry_velocity.speed * keep100000) \div 100000]

\* exit_speed = speed * (1.0 - penetration_loss / 100.0 * thickness_ratio).max(0.1)
calculate_exit_velocity(entry_velocity, surface, travel_distance) ==
    LET speed == entry_velocity.speed
        ratio1000 == Min((travel_distance * 1000) \div surface.thickness, 1000)
        keep100000 == Max(100000 - surface.penetration_loss * ratio1000, 10000)
        exit_speed == (speed * keep100000) \div 100000
    IN  [dir |-> entry_velocity.dir, speed |-> exit_speed]

\* ---- systems/collision.rs -------------------------------------------------
PayloadDamage(payload) ==
    IF payload.kind \in {"Kinetic", "Explosive"} THEN payload.damage ELSE DefaultDamage

\* mutation: the ricochet test is made whatever config.enable_ricochet says
RicochetBranch_IgnoresFlag(cfg, projectile, hit_normal, surface) ==
    /\ surface.kind # "NoSurface"
    /\ should_ricochet(projectile.velocity, hit_normal, surface)

\* The ricochet branch: taken when the ricochet test passes, whatever new_speed is.
RicochetBranch(cfg, projectile, hit_normal, surface) ==
    /\ surface.kind # "NoSurface"
    /\ cfg.enable_ricochet
    /\ should_ricochet(projectile.velocity, hit_normal, surface)

\* mutation: the ricochet is accepted whatever speed it leaves
Ricocheted_NoSpeedCheck(cfg, projectile, hit_normal, surface) ==
    RicochetBranch(cfg, projectile, hit_normal, surface)

Ricocheted(cfg, projectile, hit_normal, surface) ==
    /\ RicochetBranch(cfg, projectile, hit_normal, surface)
    /\ calculate_ricochet(projectile.velocity, hit_normal, surface).speed
          > cfg.min_projectile_speed

\* mutation: the penetration test is an `if` of its own, not the `else if` of the
\* ricochet test
Penetrated_NotElse(cfg, projectile, hit_normal, surface) ==
    /\ surface.kind # "NoSurface"
    /\ cfg.enable_penetration
    /\ projectile.mass * projectile.velocity.speed * projectile.velocity.speed
          > 8000 * surface.penetration_loss
    /\ calculate_exit_velocity(projectile.velocity, surface, surface.thickness).speed
          > cfg.min_projectile_speed

\* dynamic_power = 0.5 * mass * speed^2 * 0.25 > penetration_loss   (mass in grams)
Penetrated(cfg, projectile, hit_normal, surface) ==
    /\ surface.kind # "NoSurface"
    /\ ~RicochetBranch(cfg, projectile, hit_normal, surface)
    /\ cfg.enable_penetration
    /\ projectile.mass * projectile.velocity.speed * projectile.velocity.speed
          > 8000 * surface.penetration_loss
    /\ calculate_exit_velocity(projectile.velocity, surface, surface.thickness).speed
          > cfg.min_projectile_speed

\* mutation: only a penetration keeps the projectile
Despawns_IgnoresRicochet(penetrated, ricocheted) == ~penetrated

\* if !penetrated && !ricocheted { commands.entity(projectile_entity).despawn(); }
Despawns(penetrated, ricocheted) == ~penetrated /\ ~ricocheted

\* the velocity field of the HitEvent: projectile.velocity, read when the event is written
EventVelocity(before, after) == after.velocity

\* process_hit: the projectile and transform it leaves, the HitEvent it writes and
\* whether it queues a despawn of the projectile.
process_hit(cfg, projectile_entity, projectile, hit_entity, hit_point, hit_normal, surface) ==
    LET penetrated == Penetrated(cfg, projectile, hit_normal, surface)
        ricocheted == Ricocheted(cfg, projectile, hit_normal, surface)
        new_velocity ==
            IF ricocheted THEN calculate_ricochet(projectile.velocity, hit_normal, surface)
            ELSE IF penetrated
                 THEN calculate_exit_velocity(projectile.velocity, surface, surface.thickness)
                 ELSE projectile.velocity
        new_translation ==
            IF ricocheted THEN hit_point + hit_normal[1] * RicochetOffset
            ELSE projectile.translation
        after == [projectile EXCEPT !.velocity = new_velocity,
                                    !.translation = new_translation]
    IN  [projectile |-> after,
         event |-> [projectile |-> projectile_entity,
                    target |-> hit_entity,
                    impact_point |-> hit_point,
                    normal |-> hit_normal,
                    velocity |-> EventVelocity(projectile, after),
                    damage |-> PayloadDamage(projectile.payload),
                    penetrated |-> penetrated,
                    ricocheted |-> ricocheted],
         despawn |-> Despawns(penetrated, ricocheted)]

\* SpatialQuery::cast_ray along the x axis from origin to end (solid = true):
\* the set holding the nearest wall on the segment, or the empty set.
cast_ray(origin, end) ==
    LET on == {w \in Walls : Min(origin, end) <= w.x /\ w.x <= Max(origin, end)}
    IN  {w \in on : \A v \in on : Abs(w.x - origin) <= Abs(v.x - origin)}

\* mutation: a wall without a material is given SurfaceMaterial::default()
SurfaceOrDefault(hit) ==
    IF hit.surface.kind = "NoSurface"
    THEN [kind |-> "Default", ricochet_angle |-> 300, penetration_loss |-> 50, thickness |-> 5]
    ELSE hit.surface

\* surfaces.get(hit.entity).ok()
SurfaceOf(hit) == hit.surface

\* the normal of a wall as seen by a ray travelling from origin to end
HitNormal(origin, end) == IF end > origin THEN <<-1, 0>> ELSE <<1, 0>>

\* one iteration of the loop of handle_collisions
CollideOne(e) ==
    LET projectile == world[e]
        ray_origin == projectile.previous_position
        ray_end == projectile.translation
        hits == cast_ray(ray_origin, ray_end)
    IN  IF ray_origin = ray_end \/ hits = {}
        THEN [projectile |-> [projectile EXCEPT !.previous_position = projectile.translation],
              events |-> <<>>, commands |-> <<>>]
        ELSE LET hit == CHOOSE w \in hits : TRUE
                 r == process_hit(config, e, projectile, hit.id, hit.x,
                                  HitNormal(ray_origin, ray_end), SurfaceOf(hit))
             IN  [projectile |-> [r.projectile EXCEPT
                                     !.previous_position = r.projectile.translation],
                  events |-> <<r.event>>,
                  commands |-> IF r.despawn
                               THEN <<[entity |-> e, by |-> "process_hit"]>>
                               ELSE <<>>]

\* the concatenation of f[1] .. f[n], in iteration order
RECURSIVE Concat(_, _)
Concat(f, n) == IF n = 0 THEN <<>> ELSE Concat(f, n - 1) \o f[n]

Done(e) == [projectile |-> world[e], events |-> <<>>, commands |-> <<>>]

handle_collisions ==
    /\ ~pc.collisions
    /\ LET r == [e \in Entities |-> IF Alive(e) THEN CollideOne(e) ELSE Done(e)]
       IN  /\ world' = [e \in Entities |-> r[e].projectile]
           /\ hit_events' = hit_events \o Concat([e \in Entities |-> r[e].events], MaxProj)
           /\ commands' = commands \o Concat([e \in Entities |-> r[e].commands], MaxProj)
    /\ pc' = [pc EXCEPT !.collisions = TRUE]
    /\ UNCHANGED <<config, explosion_events, penetration_events, ricochet_events,
                   tick, spawned>>
    /\ UNCHANGED weapon_vars
    /\ UNCHANGED pool_vars

\* ---- systems/kinematics.rs ------------------------------------------------
\* integrate_euler / integrate_rk4 with zero acceleration: the velocity is kept and
\* the translation advances by velocity * dt (its x component).
Integrate(projectile) ==
    LET v == projectile.velocity
    IN  [projectile EXCEPT
           !.previous_position = projectile.translation,
           !.translation = projectile.translation + (v.dir[1] * v.speed * Dt) \div Length(v.dir),
           !.forward = IF v.speed > 0 THEN v.dir ELSE projectile.forward,
           !.integrated = projectile.integrated + 1]

\* The bookkeeping of the integration step that feeds cleanup_expired_projectiles:
\* the distance travelled grows by the length of the step and the age by dt.
Accumulate(before, after) ==
    [after EXCEPT
       !.distance_travelled = before.distance_travelled + before.velocity.speed * Dt,
       !.age = before.age + Dt]

update_projectiles_kinematics ==
    /\ pc.chain = 0
    /\ world' = [e \in Entities |-> IF Alive(e)
                                    THEN Accumulate(world[e], Integrate(world[e]))
                                    ELSE world[e]]
    /\ pc' = [pc EXCEPT !.chain = 1]
    /\ UNCHANGED <<config, hit_events, explosion_events, penetration_events,
                   ricochet_events, commands, tick, spawned>>
    /\ UNCHANGED weapon_vars
    /\ UNCHANGED pool_vars

\* ---- systems/logic.rs -----------------------------------------------------
\* mutation: the incendiary event is filled like the explosive one
IncendiaryEvent_AsExplosive(entity, position, payload) ==
    [center |-> position, radius |-> payload.radius, damage |-> payload.damage,
     falloff |-> payload.falloff, explosion_type |-> "Incendiary", source |-> entity]

IncendiaryEvent(entity, position, payload) ==
    [center |-> position, radius |-> payload.radius, damage |-> payload.damage_per_second,
     falloff |-> 10, explosion_type |-> "Incendiary", source |-> entity]

\* mutation: the fuse triggers only once elapsed has passed it
FuseExpired_Strict(elapsed, fuse) == elapsed > fuse

\* if *elapsed >= *fuse
FuseExpired(elapsed, fuse) == elapsed >= fuse

ExplosionOf(entity, position, payload) ==
    CASE payload.kind = "Explosive" ->
           <<[center |-> position, radius |-> payload.radius, damage |-> payload.damage,
              falloff |-> payload.falloff, explosion_type |-> "HighExplosive",
              source |-> entity]>>
      [] payload.kind = "Incendiary" ->
           <<IncendiaryEvent(entity, position, payload)>>
      [] payload.kind = "Flash" ->
           <<[center |-> position, radius |-> payload.radius, damage |-> 0,
              falloff |-> 10, explosion_type |-> "Flash", source |-> entity]>>
      [] payload.kind = "Smoke" ->
           <<[center |-> position, radius |-> payload.radius, damage |-> 0,
              falloff |-> 10, explosion_type |-> "Smoke", source |-> entity]>>
      [] OTHER -> <<>>

\* mutation: the explosion is written but the projectile is not despawned
trigger_explosion_NoDespawn(entity, position, payload) ==
    [events |-> ExplosionOf(entity, position, payload),
     commands |-> <<>>]

trigger_explosion(entity, position, payload) ==
    [events |-> ExplosionOf(entity, position, payload),
     commands |-> <<[entity |-> entity, by |-> "trigger_explosion"]>>]

\* one iteration of the loop of process_projectile_logic
LogicOne(e) ==
    LET p == world[e]
        elapsed == p.logic.elapsed + Dt
    IN  IF p.logic.kind = "Timed"
        THEN LET r == IF FuseExpired(elapsed, p.logic.fuse)
                      THEN trigger_explosion(e, p.translation, p.payload)
                      ELSE [events |-> <<>>, commands |-> <<>>]
             IN  [projectile |-> [p EXCEPT !.logic.elapsed = elapsed],
                  events |-> r.events, commands |-> r.commands]
        ELSE Done(e)

process_projectile_logic ==
    /\ pc.chain = 1
    /\ LET r == [e \in Entities |-> IF Alive(e) THEN LogicOne(e) ELSE Done(e)]
       IN  /\ world' = [e \in Entities |-> r[e].projectile]
           /\ explosion_events' =
                 explosion_events \o Concat([e \in Entities |-> r[e].events], MaxProj)
           /\ commands' = commands \o Concat([e \in Entities |-> r[e].commands], MaxProj)
    /\ pc' = [pc EXCEPT !.chain = 2]
    /\ UNCHANGED <<config, hit_events, penetration_events, ricochet_events, tick, spawned>>
    /\ UNCHANGED weapon_vars
    /\ UNCHANGED pool_vars

\* Projectile::default(), carrying the payload handed to process_hit separately
DummyProjectile(p) ==
    [p EXCEPT !.velocity = ZeroVelocity, !.mass = 0, !.previous_position = 0]

\* one iteration of the loop of process_hitscan
HitscanOne(e) ==
    LET p == world[e]
        start == p.translation
        end == start + (p.forward[1] * p.logic.range) \div Length(p.forward)
        hits == cast_ray(start, end)
        despawn == <<[entity |-> e, by |-> "process_hitscan"]>>
    IN  IF p.logic.kind # "Hitscan" THEN Done(e)
        ELSE IF hits = {}
        THEN [projectile |-> p, events |-> <<>>, commands |-> despawn]
        ELSE LET hit == CHOOSE w \in hits : TRUE
                 r == process_hit(config, e, DummyProjectile(p), hit.id, hit.x,
                                  HitNormal(start, end), NoSurface)
             IN  [projectile |-> p,
                  events |-> <<r.event>>,
                  commands |-> (IF r.despawn
                                THEN <<[entity |-> e, by |-> "process_hit"]>>
                                ELSE <<>>) \o despawn]

process_hitscan ==
    /\ ~pc.hitscan
    /\ LET r == [e \in Entities |-> IF Alive(e) THEN HitscanOne(e) ELSE Done(e)]
       IN  /\ hit_events' = hit_events \o Concat([e \in Entities |-> r[e].events], MaxProj)
           /\ commands' = commands \o Concat([e \in Entities |-> r[e].commands], MaxProj)
    /\ pc' = [pc EXCEPT !.hitscan = TRUE]
    /\ UNCHANGED <<world, config, explosion_events, penetration_events,
                   ricochet_events, tick, spawned>>
    /\ UNCHANGED weapon_vars
    /\ UNCHANGED pool_vars

\* ---- command buffers ------------------------------------------------------
Queued(e) == \E i \in 1..Len(commands) : commands[i].entity = e

\* the world after the queued despawn commands have been applied
Despawned == [e \in Entities |-> IF Queued(e) THEN NoEntity ELSE world[e]]

\* the sync point the chain inserts after process_projectile_logic (a system with
\* Commands that has a successor in the chain)
ApplyDeferred ==
    /\ pc.chain = 2
    /\ world' = Despawned
    /\ commands' = <<>>
    /\ pc' = [pc EXCEPT !.chain = 3]
    /\ UNCHANGED <<config, hit_events, explosion_events, penetration_events,
                   ricochet_events, tick, spawned>>
    /\ UNCHANGED weapon_vars
    /\ UNCHANGED pool_vars

\* ---- systems/logic.rs: cleanup_expired_projectiles --------------------------
\* The last system of the chain.  A projectile is past its spawn tick once it has
\* been integrated more than once.
PastSpawnTick(projectile) == projectile.age > Dt

Expired_NoGrace(cfg, projectile) ==
    \/ projectile.age > cfg.max_projectile_lifetime
    \/ projectile.distance_travelled > cfg.max_projectile_distance
    \/ projectile.velocity.speed < cfg.min_projectile_speed

Expired(cfg, projectile) ==
    \/ projectile.age > cfg.max_projectile_lifetime
    \/ projectile.distance_travelled > cfg.max_projectile_distance
    \/ (PastSpawnTick(projectile) /\ projectile.velocity.speed < cfg.min_projectile_speed)

CleanupOne(e) ==
    IF Expired(config, world[e])
    THEN <<[entity |-> e, by |-> "cleanup_expired_projectiles"]>>
    ELSE <<>>

cleanup_expired_projectiles ==
    /\ pc.chain = 3
    /\ commands' = commands \o Concat([e \in Entities |-> IF Alive(e) THEN CleanupOne(e)
                                                           ELSE <<>>], MaxProj)
    /\ pc' = [pc EXCEPT !.chain = 4]
    /\ UNCHANGED <<world, config, hit_events, explosion_events, penetration_events,
                   ricochet_events, tick, spawned>>
    /\ UNCHANGED weapon_vars
    /\ UNCHANGED pool_vars

\* the end of one run of FixedUpdate: the remaining buffers are applied and the
\* consumers drain the messages
EndTick ==
    /\ pc.chain = 4 /\ pc.collisions /\ pc.hitscan
    /\ tick < MaxTick
    /\ world' = Despawned
    /\ commands' = <<>>
    /\ hit_events' = <<>>
    /\ explosion_events' = <<>>
    /\ UNCHANGED <<penetration_events, ricochet_events>>
    /\ pc' = TickStart
    /\ tick' = tick + 1
    /\ UNCHANGED <<config, spawned>>
    /\ UNCHANGED weapon_vars
    /\ UNCHANGED pool_vars

Next ==
    \/ Spawn
    \/ update_projectiles_kinematics
    \/ handle_collisions
    \/ process_projectile_logic
    \/ process_hitscan
    \/ ApplyDeferred
    \/ cleanup_expired_projectiles
    \/ EndTick

Spec == Init /\ [][Next]_vars

TypeOK ==
    /\ tick \in 0..MaxTick
    /\ spawned \in 0..MaxProj
    /\ config \in Configs
    /\ \A e \in Entities : world[e].alive \in BOOLEAN

\* ---- systems/accuracy.rs ---------------------------------------------------
\* Angles of the Accuracy component are in microradians, its three multipliers in
\* tenths, recovery_rate in microradians per second.
AccuracyDefault ==
    [kind |-> "Accuracy", current_bloom |-> 0, base_spread |-> 2000, max_spread |-> 50000,
     bloom_per_shot |-> 10000, recovery_rate |-> 50000, movement_penalty |-> 20,
     ads_modifier |-> 3, airborne_multiplier |-> 30]

\* presets::bow(): no bloom, no recovery
AccuracyBow ==
    [kind |-> "Accuracy", current_bloom |-> 0, base_spread |-> 2000, max_spread |-> 30000,
     bloom_per_shot |-> 0, recovery_rate |-> 0, movement_penalty |-> 25,
     ads_modifier |-> 2, airborne_multiplier |-> 40]

\* the Accuracy of test_accuracy_system_functions
AccuracyTest ==
    [kind |-> "Accuracy", current_bloom |-> 2000, base_spread |-> 1000, max_spread |-> 50000,
     bloom_per_shot |-> 10000, recovery_rate |-> 50000, movement_penalty |-> 20,
     ads_modifier |-> 3, airborne_multiplier |-> 30]

Accuracies == {AccuracyDefault, AccuracyBow, AccuracyTest}

\* the fixed timesteps the host may configure (centiseconds)
Timesteps == {0, 1, Dt}

\* the movement states the host passes: <<movement_speed, max_speed>> in m/s
Movements == {<<0, 5>>, <<2, 5>>, <<5, 5>>, <<10, 5>>, <<5, 0>>}

\* the body of the loop of update_bloom
RecoverBloom_NoFloor(a, dt) ==
    [a EXCEPT !.current_bloom = a.current_bloom - (a.recovery_rate * dt) \div 100]

RecoverBloom(a, dt) ==
    [a EXCEPT !.current_bloom = Max(a.current_bloom - (a.recovery_rate * dt) \div 100, 0)]

apply_shot_bloom_NoClamp(a) ==
    [a EXCEPT !.current_bloom = a.current_bloom + a.bloom_per_shot]

apply_shot_bloom(a) ==
    [a EXCEPT !.current_bloom = Min(a.current_bloom + a.bloom_per_shot, a.max_spread)]

\* the ADS factor applied before the movement term
calculate_total_spread_AdsFirst(a, is_aiming, is_moving, is_airborne, movement_speed, max_speed) ==
    LET start == a.base_spread + a.current_bloom
        aimed == IF is_aiming THEN (start * a.ads_modifier) \div 10 ELSE start
        moved == IF is_moving /\ max_speed > 0
                 THEN aimed + (a.movement_penalty * Min(movement_speed, max_speed) * a.base_spread)
                                \div (10 * max_speed)
                 ELSE aimed
        flown == IF is_airborne THEN (moved * a.airborne_multiplier) \div 10 ELSE moved
    IN  Min(flown, a.max_spread)

\* the movement term scaled by the bloom instead of the base spread
calculate_total_spread_PenaltyOnBloom(a, is_aiming, is_moving, is_airborne, movement_speed, max_speed) ==
    LET start == a.base_spread + a.current_bloom
        moved == IF is_moving /\ max_speed > 0
                 THEN start + (a.movement_penalty * Min(movement_speed, max_speed) * a.current_bloom)
                                \div (10 * max_speed)
                 ELSE start
        flown == IF is_airborne THEN (moved * a.airborne_multiplier) \div 10 ELSE moved
        aimed == IF is_aiming THEN (flown * a.ads_modifier) \div 10 ELSE flown
    IN  Min(aimed, a.max_spread)

\* speed_ratio = min(movement_speed / max_speed, 1) is kept as the fraction
\* Min(movement_speed, max_speed) / max_speed, which is the same for max_speed > 0
calculate_total_spread(a, is_aiming, is_moving, is_airborne, movement_speed, max_speed) ==
    LET start == a.base_spread + a.current_bloom
        moved == IF is_moving /\ max_speed > 0
                 THEN start + (a.movement_penalty * Min(movement_speed, max_speed) * a.base_spread)
                                \div (10 * max_speed)
                 ELSE start
        flown == IF is_airborne THEN (moved * a.airborne_multiplier) \div 10 ELSE moved
        aimed == IF is_aiming THEN (flown * a.ads_modifier) \div 10 ELSE flown
    IN  Min(aimed, a.max_spread)

\* the weapon entity as the host creates it
InitWeapon ==
    /\ world = [e \in Entities |-> NoEntity]
    /\ config \in {c \in Configs : c.enable_ricochet /\ c.enable_penetration}
    /\ hit_events = <<>>
    /\ explosion_events = <<>>
    /\ penetration_events = <<>>
    /\ ricochet_events = <<>>
    /\ commands = <<>>
    /\ pc = TickStart
    /\ tick = 0
    /\ spawned = 0
    /\ accuracy \in Accuracies
    /\ call = NoCall
    /\ result = NoResult
    /\ tracer_pool = NoPool
    /\ decal_pool = NoPool

\* the system update_bloom, the first of the chain, for the one weapon entity
update_bloom ==
    /\ \E dt \in Timesteps :
         /\ accuracy' = RecoverBloom(accuracy, dt)
         /\ call' = [op |-> "update_bloom", dt |-> dt]
    /\ result' = NoResult
    /\ UNCHANGED ballistics_vars
    /\ UNCHANGED pool_vars

\* the host fires a shot (examples/basic_shooting.rs, handle_input)
FireShot ==
    /\ accuracy' = apply_shot_bloom(accuracy)
    /\ call' = [op |-> "apply_shot_bloom"]
    /\ result' = NoResult
    /\ UNCHANGED ballistics_vars
    /\ UNCHANGED pool_vars

\* the host asks for the spread of the next shot
QuerySpread ==
    /\ \E is_aiming \in BOOLEAN, is_moving \in BOOLEAN, is_airborne \in BOOLEAN, m \in Movements :
         /\ call' = [op |-> "calculate_total_spread", is_aiming |-> is_aiming,
                     is_moving |-> is_moving, is_airborne |-> is_airborne,
                     movement_speed |-> m[1], max_speed |-> m[2]]
         /\ result' = [op |-> "calculate_total_spread",
                       value |-> calculate_total_spread(accuracy, is_aiming, is_moving,
                                                        is_airborne, m[1], m[2])]
    /\ UNCHANGED accuracy
    /\ UNCHANGED ballistics_vars
    /\ UNCHANGED pool_vars

NextWeapon ==
    \/ update_bloom
    \/ FireShot
    \/ QuerySpread

AccuracySpec == InitWeapon /\ [][NextWeapon]_vars

\* ---- systems/surface.rs called on its own ----------------------------------
\* SurfaceMaterial::default()
DefaultSurface ==
    [kind |-> "Default", ricochet_angle |-> 300, penetration_loss |-> 50, thickness |-> 5]

\* a host-defined material: ricochet_angle = acos(0.8), a loss far above 100
Armour ==
    [kind |-> "Armour", ricochet_angle |-> 644, penetration_loss |-> 300, thickness |-> 30]

Surfaces == {Metal, Glass, Flesh, DefaultSurface, Armour}

\* directions of flight and unit surface normals in the plane
Directions ==
    {<<1, 0>>, <<-1, 0>>, <<0, 1>>, <<0, -1>>,
     <<3, 4>>, <<4, 3>>, <<3, -4>>, <<4, -3>>, <<-3, 4>>, <<-4, 3>>, <<-3, -4>>, <<-4, -3>>}

Normals == {<<1, 0>>, <<-1, 0>>, <<0, 1>>, <<0, -1>>}

Speeds == {100, 400}

\* travel_distance inside the material (cm)
Distances == {0, 15, 30, 60}

SurfaceCalls ==
    [op : {"surface"},
     velocity : [dir : Directions, speed : Speeds],
     surface_normal : Normals,
     surface : Surfaces,
     travel_distance : Distances]

\* an impact handed to systems/surface.rs
InitSurface ==
    /\ world = [e \in Entities |-> NoEntity]
    /\ config \in {c \in Configs : c.enable_ricochet /\ c.enable_penetration}
    /\ hit_events = <<>>
    /\ explosion_events = <<>>
    /\ penetration_events = <<>>
    /\ ricochet_events = <<>>
    /\ commands = <<>>
    /\ pc = TickStart
    /\ tick = 0
    /\ spawned = 0
    /\ accuracy = NoAccuracy
    /\ call \in SurfaceCalls
    /\ result = NoResult
    /\ tracer_pool = NoPool
    /\ decal_pool = NoPool

CallShouldRicochet ==
    /\ result' = [op |-> "should_ricochet",
                  value |-> should_ricochet(call.velocity, call.surface_normal, call.surface)]
    /\ UNCHANGED <<accuracy, call>>
    /\ UNCHANGED ballistics_vars
    /\ UNCHANGED pool_vars

CallCalculateRicochet ==
    /\ result' = [op |-> "calculate_ricochet",
                  value |-> calculate_ricochet(call.velocity, call.surface_normal, call.surface)]
    /\ UNCHANGED <<accuracy, call>>
    /\ UNCHANGED ballistics_vars
    /\ UNCHANGED pool_vars

CallCalculateExitVelocity ==
    /\ result' = [op |-> "calculate_exit_velocity",
                  value |-> calculate_exit_velocity(call.velocity, call.surface,
                                                    call.travel_distance)]
    /\ UNCHANGED <<accuracy, call>>
    /\ UNCHANGED ballistics_vars
    /\ UNCHANGED pool_vars

NextSurface ==
    \/ CallShouldRicochet
    \/ CallCalculateRicochet
    \/ CallCalculateExitVelocity

SurfaceSpec == InitSurface /\ [][NextSurface]_vars

\* ---- systems/logic.rs: explosions ------------------------------------------
\* powf with a whole exponent (falloff is held in tenths): the factor
\* (num/den)^(falloff/10) as the fraction <<num^k, den^k>>
RECURSIVE Pow(_, _)
Pow(x, k) == IF k = 0 THEN 1 ELSE x * Pow(x, k - 1)

RECURSIVE GCD(_, _)
GCD(a, b) == IF b = 0 THEN a ELSE GCD(b, a % b)

\* the fraction is reduced before it is raised, which keeps the products small
FalloffFactor(num, den, falloff) ==
    LET g == GCD(den, num)
    IN  <<Pow(num \div g, falloff \div 10), Pow(den \div g, falloff \div 10)>>

\* every falloff exponent treated as 1.0
calculate_explosion_damage_Linear(base_damage, distance, radius, falloff) ==
    IF distance >= radius THEN 0
    ELSE (base_damage * (radius - distance)) \div radius

\* the exponent applied to the normalized distance instead of to its complement
calculate_explosion_damage_FalloffOnDistance(base_damage, distance, radius, falloff) ==
    IF distance >= radius THEN 0
    ELSE LET f == FalloffFactor(distance, radius, falloff)
         IN  (base_damage * (f[2] - f[1])) \div f[2]

\* damage in thousandths of a point, lengths in cm
calculate_explosion_damage(base_damage, distance, radius, falloff) ==
    IF distance >= radius THEN 0
    ELSE LET f == FalloffFactor(radius - distance, radius, falloff)
         IN  (base_damage * f[1]) \div f[2]

\* base_impulse of an ExplosionType, in mm/s for a body of 1 kg
BaseImpulse(explosion_type) ==
    CASE explosion_type = "HighExplosive" -> 30000
      [] explosion_type = "Incendiary" -> 5000
      [] explosion_type = "Flash" -> 2000
      [] explosion_type = "Smoke" -> 500
      [] explosion_type = "Fragmentation" -> 25000
      [] explosion_type = "Concussion" -> 50000
      [] explosion_type = "EMP" -> 0

ExplosionTypes ==
    {"HighExplosive", "Incendiary", "Flash", "Smoke", "Fragmentation", "Concussion", "EMP"}

\* The bodies with ExplosionAffected stand on the vertical through the centre of
\* the explosion: translation is the height above it (cm), velocity the vertical
\* component (mm/s), mass in kg.  On that line normalize(direction + 0.3 * Y) is
\* the direction itself.
NoSource == 0

Bodies ==
    (301 :> [translation |-> 500, mass |-> 1, velocity |-> 0])
    @@ (302 :> [translation |-> -200, mass |-> 5, velocity |-> 0])
    @@ (303 :> [translation |-> 0, mass |-> 1, velocity |-> 0])
    @@ (304 :> [translation |-> 1200, mass |-> 1, velocity |-> 0])
    @@ (305 :> [translation |-> 500, mass |-> 0, velocity |-> 0])

ExplosionEvents ==
    [center : {0}, radius : {1000}, damage : {150}, falloff : {10, 20},
     explosion_type : ExplosionTypes, source : {NoSource, 301}]

\* the explosion that may follow the first one in the same tick
SecondEvents ==
    {ev \in ExplosionEvents :
        ev.explosion_type \in {"Smoke", "HighExplosive"} /\ ev.falloff = 10 /\ ev.source = NoSource}

\* the arguments of calculate_explosion_damage
DamageCalls ==
    [op : {"calculate_explosion_damage"}, base_damage : {0, 100000},
     distance : {0, 200, 500, 800, 1000, 1200}, radius : {0, 500, 1000},
     falloff : {10, 20, 30}]

\* one iteration of the inner loop of apply_explosion_impulse
ImpulseOne(event, entity, body) ==
    LET to_entity == body.translation - event.center
        distance == Abs(to_entity)
        direction == IF to_entity > 0 THEN 1 ELSE -1
        f == FalloffFactor(event.radius - distance, event.radius, event.falloff)
        mass == IF body.mass > 0 THEN body.mass ELSE 1
        impulse_magnitude == (BaseImpulse(event.explosion_type) * f[1]) \div (f[2] * mass)
    IN  IF entity = event.source THEN body
        ELSE IF distance >= event.radius \/ distance < 1 THEN body
        ELSE [body EXCEPT !.velocity = body.velocity + direction * impulse_magnitude]

\* one iteration of the outer loop
ImpulseEvent(event, bodies) ==
    IF BaseImpulse(event.explosion_type) <= 0 THEN bodies
    ELSE [b \in DOMAIN bodies |-> ImpulseOne(event, b, bodies[b])]

RECURSIVE ImpulseAll(_, _, _)
ImpulseAll(events, n, bodies) ==
    IF n = 0 THEN bodies
    ELSE ImpulseEvent(events[n], ImpulseAll(events, n - 1, bodies))

\* the bodies and the ExplosionEvents of one tick
InitExplosion ==
    /\ world = Bodies
    /\ config \in {c \in Configs : c.enable_ricochet /\ c.enable_penetration}
    /\ hit_events = <<>>
    /\ \E ev \in ExplosionEvents :
          \/ explosion_events = <<ev>>
          \/ \E ev2 \in SecondEvents : explosion_events = <<ev, ev2>>
    /\ penetration_events = <<>>
    /\ ricochet_events = <<>>
    /\ commands = <<>>
    /\ pc = [impulse |-> FALSE]
    /\ tick = 0
    /\ spawned = 0
    /\ accuracy = NoAccuracy
    /\ call = NoCall
    /\ result = NoResult
    /\ tracer_pool = NoPool
    /\ decal_pool = NoPool

apply_explosion_impulse ==
    /\ ~pc.impulse
    /\ world' = ImpulseAll(explosion_events, Len(explosion_events), world)
    /\ pc' = [pc EXCEPT !.impulse = TRUE]
    /\ UNCHANGED <<config, hit_events, explosion_events, penetration_events,
                   ricochet_events, commands, tick, spawned>>
    /\ UNCHANGED weapon_vars
    /\ UNCHANGED pool_vars

\* a consumer of ExplosionEvent asks for the damage at a distance
CallExplosionDamage ==
    /\ \E c \in DamageCalls :
         /\ call' = c
         /\ result' = [op |-> "calculate_explosion_damage",
                       value |-> calculate_explosion_damage(c.base_damage, c.distance,
                                                            c.radius, c.falloff)]
    /\ UNCHANGED accuracy
    /\ UNCHANGED ballistics_vars
    /\ UNCHANGED pool_vars

NextExplosion ==
    \/ apply_explosion_impulse
    \/ CallExplosionDamage

ExplosionSpec == InitExplosion /\ [][NextExplosion]_vars

\* ---- systems/kinematics.rs: update_guidance ---------------------------------
\* The guided projectiles fly in a plane; a direction is held as its heading in
\* milliradians on a circle of FullTurn units, a velocity as [heading, speed].
FullTurn == 6284
HalfTurn == 3142

GuidedIds == {401, 402}
TargetIds == {501, 502}
NoTarget == 0

\* GlobalTransform of the targets
GuidanceTargets ==
    (501 :> [alive |-> TRUE, kind |-> "Target", translation |-> <<0, 1>>])
    @@ (502 :> [alive |-> TRUE, kind |-> "Target", translation |-> <<0, -1>>])

\* the heading of (to - from).normalize_or_zero() for the positions of the model
Bearing(from, to) ==
    LET d == <<to[1] - from[1], to[2] - from[2]>>
    IN  CASE d = <<1, 0>> -> 0
          [] d = <<0, 1>> -> 1571
          [] d = <<-1, 0>> -> 3142
          [] d = <<0, -1>> -> 4713

\* Vec3::angle_between of two headings, in 0..HalfTurn
AngleBetween(a, b) ==
    LET d == (b - a) % FullTurn
    IN  IF d > HalfTurn THEN FullTurn - d ELSE d

\* the rotation of heading a by turn about the axis a x b: towards b the short way
RotateTowards(a, b, turn) ==
    IF (b - a) % FullTurn < HalfTurn THEN (a + turn) % FullTurn ELSE (a - turn) % FullTurn

Guidances ==
    [target : {NoTarget, 501, 502}, turn_rate : {1000, 100000}, delay : {0, 3},
     elapsed : {0}]

GuidedProjectiles ==
    [alive : {TRUE}, kind : {"Guided"}, translation : {<<0, 0>>},
     velocity : [heading : {0, HalfTurn}, speed : {100}],
     guidance : Guidances]

\* the delay compared the wrong way round
DelayPending_Inverted(guidance) == guidance.elapsed > guidance.delay

\* if guidance.elapsed < guidance.delay { continue; }
DelayPending(guidance) == guidance.elapsed < guidance.delay

\* transforms.get(target_entity) succeeds
Resolves(w, target_entity) == target_entity \in DOMAIN w /\ w[target_entity].alive

\* one iteration of the loop of update_guidance
GuideOne(w, p, dt) ==
    LET guidance == [p.guidance EXCEPT !.elapsed = p.guidance.elapsed + dt]
        q == [p EXCEPT !.guidance = guidance]
        current_dir == p.velocity.heading
        direction_to_target == Bearing(p.translation, w[guidance.target].translation)
        angle == AngleBetween(current_dir, direction_to_target)
        max_turn == (guidance.turn_rate * dt) \div 100
        new_dir == IF angle <= max_turn THEN direction_to_target
                   ELSE RotateTowards(current_dir, direction_to_target, max_turn)
    IN  IF DelayPending(guidance) THEN q
        ELSE IF guidance.target = NoTarget THEN q
        ELSE IF ~Resolves(w, guidance.target) THEN q
        ELSE IF p.velocity.speed = 0 THEN q
        ELSE IF angle < 1 THEN q
        ELSE IF angle > max_turn /\ angle = HalfTurn THEN q
        ELSE [q EXCEPT !.velocity.heading = new_dir]

\* two guided projectiles and two targets
InitGuidance ==
    /\ \E g \in [GuidedIds -> GuidedProjectiles] : world = g @@ GuidanceTargets
    /\ config \in {c \in Configs : c.enable_ricochet /\ c.enable_penetration}
    /\ hit_events = <<>>
    /\ explosion_events = <<>>
    /\ penetration_events = <<>>
    /\ ricochet_events = <<>>
    /\ commands = <<>>
    /\ pc = TickStart
    /\ tick = 0
    /\ spawned = 0
    /\ accuracy = NoAccuracy
    /\ call = NoCall
    /\ result = NoResult
    /\ tracer_pool = NoPool
    /\ decal_pool = NoPool

\* the system update_guidance; result names the projectiles it has steered
update_guidance ==
    /\ tick <= MaxTick
    /\ LET w == [e \in DOMAIN world |->
                   IF e \in GuidedIds THEN GuideOne(world, world[e], Dt) ELSE world[e]]
       IN  /\ world' = w
           /\ result' = [op |-> "update_guidance",
                         steered |-> {e \in GuidedIds : w[e].velocity # world[e].velocity}]
    /\ call' = [op |-> "update_guidance"]
    /\ tick' = tick + 1
    /\ UNCHANGED <<config, hit_events, explosion_events, penetration_events,
                   ricochet_events, commands, pc, spawned, accuracy>>
    /\ UNCHANGED pool_vars

\* the host destroys a target between two ticks
DestroyTarget ==
    /\ \E t \in TargetIds :
         /\ world[t].alive
         /\ world' = [world EXCEPT ![t] = NoEntity]
    /\ UNCHANGED <<config, hit_events, explosion_events, penetration_events,
                   ricochet_events, commands, pc, tick, spawned>>
    /\ UNCHANGED weapon_vars
    /\ UNCHANGED pool_vars

NextGuidance ==
    \/ update_guidance
    \/ DestroyTarget

GuidanceSpec == InitGuidance /\ [][NextGuidance]_vars

\* ---- systems/vfx.rs, resources.rs: pooled tracers and decals ----------------
\* Times are centiseconds.  A tracer or decal entity is [alive, lifetime, visible];
\* the systems below never despawn one.
MaxVfx == 2
MaxFrame == 3

TracerIds == 601..(600 + MaxVfx)
DecalIds == 701..(700 + MaxVfx)
VfxIds == TracerIds \cup DecalIds
None == 0

\* max_size of a pool: 0 from Default (init_resource), or what the host gave to new()
PoolSizes == {0, 1, 3}
\* time.delta_secs() of a frame of Update
FrameTimes == {1, 2}
\* speed handed to spawn_tracer, lifetime handed to spawn_decal
TracerSpeeds == {1000}
DecalLifetimes == {2}

\* self.available.pop()
TracerPool_get(pool) ==
    IF Len(pool.available) = 0
    THEN [entity |-> None, pool |-> pool]
    ELSE [entity |-> pool.available[Len(pool.available)],
          pool |-> [pool EXCEPT !.available = SubSeq(@, 1, Len(@) - 1)]]

\* if self.available.len() < self.max_size { self.available.push(entity); }
TracerPool_release(pool, entity) ==
    IF Len(pool.available) < pool.max_size
    THEN [pool EXCEPT !.available = Append(@, entity)]
    ELSE pool

DecalPool_get(pool) ==
    IF Len(pool.available) = 0
    THEN [entity |-> None, pool |-> pool]
    ELSE [entity |-> pool.available[Len(pool.available)],
          pool |-> [pool EXCEPT !.available = SubSeq(@, 1, Len(@) - 1)]]

DecalPool_release(pool, entity) ==
    IF Len(pool.available) < pool.max_size
    THEN [pool EXCEPT !.available = Append(@, entity)]
    ELSE pool

\* tracer.lifetime -= dt; if tracer.lifetime <= 0.0 { *visibility = Visibility::Hidden; .. }
Age(effect, dt) ==
    [effect EXCEPT !.lifetime = @ - dt,
                   !.visible = IF effect.lifetime - dt <= 0 THEN FALSE ELSE @]

\* the world after the lifetimes of the effects in ids have been updated
Aged(w, ids, dt) ==
    [e \in DOMAIN w |-> IF e \in ids /\ w[e].alive THEN Age(w[e], dt) ELSE w[e]]

\* the pool after the loop of update_tracers has passed the first n tracers of the query
RECURSIVE ReleaseTracers(_, _, _)
ReleaseTracers(pool, w, n) ==
    IF n = 0 THEN pool
    ELSE LET p == ReleaseTracers(pool, w, n - 1)
             entity == 600 + n
         IN  IF w[entity].alive /\ w[entity].lifetime <= 0
             THEN TracerPool_release(p, entity)
             ELSE p

\* the same for the decals of cleanup_expired_effects
RECURSIVE ReleaseDecals(_, _, _)
ReleaseDecals(pool, w, n) ==
    IF n = 0 THEN pool
    ELSE LET p == ReleaseDecals(pool, w, n - 1)
             entity == 700 + n
         IN  IF w[entity].alive /\ w[entity].lifetime <= 0
             THEN DecalPool_release(p, entity)
             ELSE p

\* let lifetime = tracer_length / speed * 10.0, with tracer_length = 2.0 m
TracerLifetime(speed) == 2000 \div speed

\* commands.spawn(..).id(): an entity that is not in the world yet
Fresh(ids) == {e \in ids : ~world[e].alive /\ \A o \in ids : o < e => world[o].alive}

InitVfx ==
    /\ world = [e \in VfxIds |-> NoEntity]
    /\ \E n \in PoolSizes :
          /\ tracer_pool = [available |-> <<>>, max_size |-> n]
          /\ decal_pool = [available |-> <<>>, max_size |-> n]
    /\ \E dt \in FrameTimes : pc = [dt |-> dt, tracers |-> FALSE, effects |-> FALSE]
    /\ config \in {c \in Configs : c.enable_ricochet /\ c.enable_penetration}
    /\ hit_events = <<>>
    /\ explosion_events = <<>>
    /\ penetration_events = <<>>
    /\ ricochet_events = <<>>
    /\ commands = <<>>
    /\ tick = 0
    /\ spawned = 0
    /\ accuracy = NoAccuracy
    /\ call = NoCall
    /\ result = NoResult

vfx_unchanged == <<config, hit_events, explosion_events, penetration_events,
                   ricochet_events, commands, spawned, accuracy>>

update_tracers ==
    /\ ~pc.tracers
    /\ LET w == Aged(world, TracerIds, pc.dt)
       IN  /\ world' = w
           /\ tracer_pool' = ReleaseTracers(tracer_pool, w, MaxVfx)
    /\ pc' = [pc EXCEPT !.tracers = TRUE]
    /\ UNCHANGED <<decal_pool, tick, call, result>>
    /\ UNCHANGED vfx_unchanged

cleanup_expired_effects ==
    /\ ~pc.effects
    /\ LET w == Aged(world, DecalIds, pc.dt)
       IN  /\ world' = w
           /\ decal_pool' = ReleaseDecals(decal_pool, w, MaxVfx)
    /\ pc' = [pc EXCEPT !.effects = TRUE]
    /\ UNCHANGED <<tracer_pool, tick, call, result>>
    /\ UNCHANGED vfx_unchanged

\* a host system calls spawn_tracer and its commands are applied; result is the entity
\* returned and whether it came from the pool
spawn_tracer ==
    /\ \E speed \in TracerSpeeds :
         LET got == TracerPool_get(tracer_pool)
             tracer == [alive |-> TRUE, lifetime |-> TracerLifetime(speed),
                        visible |-> TRUE]
         IN  /\ call' = [op |-> "spawn_tracer", speed |-> speed]
             /\ tracer_pool' = got.pool
             /\ IF got.entity # None
                THEN /\ world' = [world EXCEPT ![got.entity] = tracer]
                     /\ result' = [op |-> "spawn_tracer", entity |-> got.entity,
                                   reused |-> TRUE]
                ELSE \E entity \in Fresh(TracerIds) :
                        /\ world' = [world EXCEPT ![entity] = tracer]
                        /\ result' = [op |-> "spawn_tracer", entity |-> entity,
                                      reused |-> FALSE]
    /\ UNCHANGED <<decal_pool, pc, tick>>
    /\ UNCHANGED vfx_unchanged

spawn_decal ==
    /\ \E lifetime \in DecalLifetimes :
         LET got == DecalPool_get(decal_pool)
             decal == [alive |-> TRUE, lifetime |-> lifetime, visible |-> TRUE]
         IN  /\ call' = [op |-> "spawn_decal", lifetime |-> lifetime]
             /\ decal_pool' = got.pool
             /\ IF got.entity # None
                THEN /\ world' = [world EXCEPT ![got.entity] = decal]
                     /\ result' = [op |-> "spawn_decal", entity |-> got.entity,
                                   reused |-> TRUE]
                ELSE \E entity \in Fresh(DecalIds) :
                        /\ world' = [world EXCEPT ![entity] = decal]
                        /\ result' = [op |-> "spawn_decal", entity |-> entity,
                                      reused |-> FALSE]
    /\ UNCHANGED <<tracer_pool, pc, tick>>
    /\ UNCHANGED vfx_unchanged

\* the end of one frame of Update; the next one has its own delta
EndFrame ==
    /\ pc.tracers /\ pc.effects
    /\ tick < MaxFrame
    /\ tick' = tick + 1
    /\ \E dt \in FrameTimes : pc' = [dt |-> dt, tracers |-> FALSE, effects |-> FALSE]
    /\ UNCHANGED <<world, call, result>>
    /\ UNCHANGED pool_vars
    /\ UNCHANGED vfx_unchanged

NextVfx ==
    \/ update_tracers
    \/ cleanup_expired_effects
    \/ spawn_tracer
    \/ spawn_decal
    \/ EndFrame

VfxSpec == InitVfx /\ [][NextVfx]_vars

\* ==== properties ===========================================================
\* what a step appends to the message queues and to the command buffer
NewHitEvents == {i \in 1..Len(hit_events') : i > Len(hit_events)}
NewExplosions == {i \in 1..Len(explosion_events') : i > Len(explosion_events)}
NewCommands == {i \in 1..Len(commands') : i > Len(commands)}

CollisionStep == ~pc.collisions /\ pc'.collisions
LogicStep == pc.chain = 1 /\ pc'.chain = 2

WallSurface(id) == (CHOOSE w \in Walls : w.id = id).surface

Stopped(ev) == ~ev.penetrated /\ ~ev.ricocheted

\* the step queues a despawn of e on behalf of process_hit / trigger_explosion
MarkedByHit(e) ==
    \E j \in NewCommands : commands'[j] = [entity |-> e, by |-> "process_hit"]
Detonated(e) ==
    \E j \in NewCommands : commands'[j] = [entity |-> e, by |-> "trigger_explosion"]

QueuedBy(e, who) ==
    \E j \in 1..Len(commands) : commands[j] = [entity |-> e, by |-> who]

\* C1: a processed hit queues the removal of its projectile exactly when the HitEvent it
\* writes has penetrated = false and ricocheted = false; after a penetration or a ricochet
\* the projectile is not marked by that hit and is still in the world.
C1_RemovedIffStopped ==
    [][\A i \in NewHitEvents :
          LET ev == hit_events'[i]
          IN  /\ MarkedByHit(ev.projectile) <=> Stopped(ev)
              /\ ~Stopped(ev) => world'[ev.projectile].alive]_vars

C1_Witness ==
    \E i \in 1..Len(hit_events) :
       /\ world[hit_events[i].projectile].alive
       /\ world[hit_events[i].projectile].velocity.speed > 0
       /\ Stopped(hit_events[i])
       /\ QueuedBy(hit_events[i].projectile, "process_hit")

\* C2: the velocity field of every HitEvent is the velocity the projectile had before
\* the hit was resolved.
C2_EventCarriesPreImpactVelocity ==
    [][\A i \in NewHitEvents :
          hit_events'[i].velocity = world[hit_events'[i].projectile].velocity]_vars

\* C3: every HitEvent with penetrated = true comes with a PenetrationEvent of the same
\* projectile, and every HitEvent with ricocheted = true with a RicochetEvent.
C3_SpecializedEventEmitted ==
    \A i \in 1..Len(hit_events) :
       /\ hit_events[i].penetrated =>
             \E j \in 1..Len(penetration_events) :
                penetration_events[j].projectile = hit_events[i].projectile
       /\ hit_events[i].ricocheted =>
             \E j \in 1..Len(ricochet_events) :
                ricochet_events[j].projectile = hit_events[i].projectile

\* the hit of a projectile p on a surface s with normal n has its ricochet (its
\* penetration) rejected because the speed it would leave is below the minimum
RicochetRejected(p, n, s) ==
    /\ s.kind # "NoSurface"
    /\ config.enable_ricochet
    /\ should_ricochet(p.velocity, n, s)
    /\ calculate_ricochet(p.velocity, n, s).speed < config.min_projectile_speed
PenetrationRejected(p, n, s) ==
    /\ s.kind # "NoSurface"
    /\ ~(config.enable_ricochet /\ should_ricochet(p.velocity, n, s))
    /\ config.enable_penetration
    /\ p.mass * p.velocity.speed * p.velocity.speed > 8000 * s.penetration_loss
    /\ calculate_exit_velocity(p.velocity, s, s.thickness).speed < config.min_projectile_speed

\* C4: a hit whose ricochet or penetration is rejected for its speed is a full stop: the
\* HitEvent has both flags false, the projectile is marked for removal, and its velocity
\* and position are those it had before the hit.
C4_RejectedIsFullStop ==
    [][CollisionStep =>
         \A i \in NewHitEvents :
            LET ev == hit_events'[i]
                e == ev.projectile
                s == WallSurface(ev.target)
            IN  (RicochetRejected(world[e], ev.normal, s)
                   \/ PenetrationRejected(world[e], ev.normal, s))
                => /\ Stopped(ev)
                   /\ MarkedByHit(e)
                   /\ world'[e].velocity = world[e].velocity
                   /\ world'[e].translation = world[e].translation]_vars

C4_Witness ==
    \E i \in 1..Len(hit_events) :
       LET ev == hit_events[i]
           e == ev.projectile
       IN  /\ world[e].alive
           /\ RicochetRejected(world[e], ev.normal, WallSurface(ev.target))
           /\ config.enable_penetration
           /\ Stopped(ev)
           /\ QueuedBy(e, "process_hit")

\* C5: a hit on a wall without SurfaceMaterial is a stop under every setting of the flags:
\* one HitEvent with both flags false, velocity unchanged, projectile marked for removal.
C5_NoSurfaceStops ==
    [][\A i \in NewHitEvents :
          LET ev == hit_events'[i]
              e == ev.projectile
          IN  WallSurface(ev.target).kind = "NoSurface"
              => /\ Stopped(ev)
                 /\ Cardinality({k \in NewHitEvents : hit_events'[k].projectile = e}) = 1
                 /\ world'[e].velocity = world[e].velocity
                 /\ MarkedByHit(e)]_vars

C5_Witness ==
    /\ config.enable_ricochet
    /\ config.enable_penetration
    /\ pc.collisions
    /\ \E i \in 1..Len(hit_events) :
          /\ world[hit_events[i].projectile].alive
          /\ world[hit_events[i].projectile].logic.kind = "Impact"
          /\ WallSurface(hit_events[i].target).kind = "NoSurface"
          /\ Stopped(hit_events[i])
          /\ QueuedBy(hit_events[i].projectile, "process_hit")

\* C6: in the projectile-logic step of every tick a Timed projectile's elapsed grows by
\* dt, and it detonates in that step exactly when the new elapsed has reached the fuse;
\* elapsed changes in no other step, it was below the fuse before, and no Timed
\* projectile whose elapsed has reached its fuse is in the world when a tick starts.
C6_FuseDetonatesOnTime ==
    [][\A e \in Entities :
          (world[e].alive /\ world[e].logic.kind = "Timed") =>
             /\ LogicStep =>
                  /\ world[e].logic.elapsed < world[e].logic.fuse
                  /\ world'[e].logic.elapsed = world[e].logic.elapsed + Dt
                  /\ Detonated(e) <=> world'[e].logic.elapsed >= world[e].logic.fuse
             /\ (~LogicStep /\ world'[e].alive) =>
                  world'[e].logic.elapsed = world[e].logic.elapsed
             /\ (pc' = TickStart /\ world'[e].alive) =>
                  world'[e].logic.elapsed < world'[e].logic.fuse]_vars

C6_Witness ==
    \E e \in Entities :
       /\ world[e].alive
       /\ world[e].logic.kind = "Timed"
       /\ world[e].born < tick
       /\ world[e].logic.elapsed = world[e].logic.fuse
       /\ QueuedBy(e, "trigger_explosion")

\* the ExplosionEvents a detonation of projectile p (entity e) has to write
ExpectedExplosion(e, p) ==
    LET pl == p.payload
        ev(type, dmg, fall) ==
           <<[center |-> p.translation, radius |-> pl.radius, damage |-> dmg,
              falloff |-> fall, explosion_type |-> type, source |-> e]>>
    IN  IF pl.kind = "Explosive" THEN ev("HighExplosive", pl.damage, pl.falloff)
        ELSE IF pl.kind = "Incendiary" THEN ev("Incendiary", pl.damage_per_second, 10)
        ELSE IF pl.kind = "Flash" THEN ev("Flash", 0, 10)
        ELSE IF pl.kind = "Smoke" THEN ev("Smoke", 0, 10)
        ELSE <<>>

\* the sub-sequence of the ExplosionEvents a step appends that have source e
NewExplosionsOf(e) ==
    LET FromE(x) == x.source = e
    IN  SelectSeq(SubSeq(explosion_events', Len(explosion_events) + 1,
                         Len(explosion_events')), FromE)

\* C7: the ExplosionEvent of a detonation is fixed by the payload variant (Explosive:
\* HighExplosive with the payload's damage, radius, falloff; Incendiary: damage =
\* damage_per_second, falloff 1.0; Flash, Smoke: damage 0; Kinetic: no event), with
\* center = the projectile's position and source = the projectile; nothing else writes
\* an ExplosionEvent.
C7_ExplosionByPayload ==
    [][\A e \in Entities :
          /\ Detonated(e) => NewExplosionsOf(e) = ExpectedExplosion(e, world[e])
          /\ ~Detonated(e) => NewExplosionsOf(e) = <<>>]_vars

C7_Witness ==
    \E i \in 1..Len(explosion_events) :
       /\ explosion_events[i].explosion_type = "Incendiary"
       /\ explosion_events[i].damage = 15
       /\ explosion_events[i].falloff = 10
       /\ QueuedBy(explosion_events[i].source, "trigger_explosion")

TargetInRange(p) == \E t \in Targets : Abs(t.x - p.translation) <= p.logic.range

\* C8: in a tick in which a target is within range of a Proximity projectile, the
\* projectile detonates: its payload's ExplosionEvent is written and it is marked for
\* removal.
C8_ProximityDetonates ==
    [][LogicStep =>
         \A e \in Entities :
            (world[e].alive /\ world[e].logic.kind = "Proximity" /\ TargetInRange(world[e]))
            => /\ Detonated(e)
               /\ NewExplosionsOf(e) = ExpectedExplosion(e, world[e])]_vars

\* C9: a Hitscan projectile is never advanced by the motion integrator, and it is gone
\* from the world when the tick after its creation starts.
C9_HitscanHasNoFlight ==
    \A e \in Entities :
       (world[e].alive /\ world[e].logic.kind = "Hitscan") =>
          /\ world[e].integrated = 0
          /\ pc = TickStart => world[e].born = tick

\* C10: a Sticky projectile whose collision resolves as a stop is not marked for removal:
\* it stays in the world, at the impact point.
C10_StickyEmbeds ==
    [][CollisionStep =>
         \A i \in NewHitEvents :
            LET ev == hit_events'[i]
                e == ev.projectile
            IN  (world[e].logic.kind = "Sticky" /\ Stopped(ev))
                => /\ ~MarkedByHit(e)
                   /\ world'[e].alive
                   /\ world'[e].translation = ev.impact_point]_vars

\* ---- C11 ------------------------------------------------------------------
CleanupStep == pc.chain = 3 /\ pc'.chain = 4

ExpiredNow(e) ==
    \E i \in NewCommands : commands'[i] = [entity |-> e, by |-> "cleanup_expired_projectiles"]

OverAge(p) == p.age > config.max_projectile_lifetime
OverDistance(p) == p.distance_travelled > config.max_projectile_distance
TooSlow(p) == p.velocity.speed < config.min_projectile_speed

\* C11: in the expiry step that follows the per-state logic of a tick, a live
\* projectile of any ProjectileLogic variant is queued for removal exactly when its
\* age exceeds max_projectile_lifetime, or its distance travelled exceeds
\* max_projectile_distance, or it is past its spawn tick and slower than
\* min_projectile_speed; so one under all three thresholds is retained and a slow one
\* is retained in its spawn tick.
C11_ExpiredIsRemoved ==
    [][CleanupStep =>
         \A e \in Entities :
            Alive(e) =>
               (ExpiredNow(e) <=>
                  \/ OverAge(world[e])
                  \/ OverDistance(world[e])
                  \/ (tick > world[e].born /\ TooSlow(world[e])))]_vars

\* a slow projectile past its spawn tick, within lifetime and distance, has been
\* queued for removal by the expiry step
C11_Witness ==
    /\ pc.chain = 4
    /\ \E e \in Entities :
          /\ world[e].alive
          /\ QueuedBy(e, "cleanup_expired_projectiles")
          /\ TooSlow(world[e]) /\ ~OverAge(world[e]) /\ ~OverDistance(world[e])

\* further cases of C11 that the model reaches
C11_OverAgeOnly ==
    /\ pc.chain = 4
    /\ \E e \in Entities :
          /\ world[e].alive
          /\ QueuedBy(e, "cleanup_expired_projectiles")
          /\ OverAge(world[e]) /\ ~TooSlow(world[e]) /\ ~OverDistance(world[e])

C11_OverDistanceOnly ==
    /\ pc.chain = 4
    /\ \E e \in Entities :
          /\ world[e].alive
          /\ QueuedBy(e, "cleanup_expired_projectiles")
          /\ OverDistance(world[e]) /\ ~TooSlow(world[e]) /\ ~OverAge(world[e])

C11_SlowKeptInSpawnTick ==
    /\ pc.chain = 4
    /\ \E e \in Entities :
          /\ world[e].alive
          /\ ~Queued(e)
          /\ TooSlow(world[e]) /\ world[e].born = tick

\* ---- C12 ------------------------------------------------------------------
\* C12: within a tick, collision resolution runs after that tick's motion integration
\* and before that tick's projectile logic and expiry: whenever handle_collisions
\* has run the integration has run, and whenever the logic or the expiry has run
\* handle_collisions has run.
C12_CollisionBetweenIntegrationAndLogic ==
    /\ pc.collisions => pc.chain >= 1
    /\ pc.chain >= 2 => pc.collisions

\* ---- C13 ------------------------------------------------------------------
\* C13: from 0 <= current_bloom <= max_spread, with bloom_per_shot >= 0 and
\* recovery_rate >= 0, every sequence of shots and of recovery ticks with dt >= 0
\* keeps 0 <= current_bloom <= max_spread.
C13_BloomWithinBounds ==
    /\ 0 <= accuracy.current_bloom
    /\ accuracy.current_bloom <= accuracy.max_spread

\* a recovery tick has floored the bloom of a recovering weapon at zero
C13_Witness ==
    /\ call.op = "update_bloom" /\ call.dt > 0
    /\ accuracy.recovery_rate > 0
    /\ accuracy.current_bloom = 0

\* a shot has clamped the bloom at max_spread
C13_ShotClamped ==
    /\ call.op = "apply_shot_bloom"
    /\ accuracy.bloom_per_shot > 0
    /\ accuracy.current_bloom = accuracy.max_spread

\* ---- C14 ------------------------------------------------------------------
ShotStep == call'.op = "apply_shot_bloom"

\* C14: a shot sets current_bloom to min(current_bloom + bloom_per_shot, max_spread)
\* and leaves every other field of Accuracy alone; with bloom_per_shot 0.01 and
\* max_spread 0.05 a shot takes the bloom from 0 to 0.01 and from 0.01 to 0.02.
C14_ShotAddsBloom ==
    [][ShotStep =>
         /\ accuracy'.current_bloom =
               Min(accuracy.current_bloom + accuracy.bloom_per_shot, accuracy.max_spread)
         /\ \A f \in DOMAIN accuracy \ {"current_bloom"} : accuracy'[f] = accuracy[f]
         /\ DOMAIN accuracy' = DOMAIN accuracy
         /\ (accuracy.bloom_per_shot = 10000 /\ accuracy.max_spread = 50000) =>
               /\ accuracy.current_bloom = 0 => accuracy'.current_bloom = 10000
               /\ accuracy.current_bloom = 10000 => accuracy'.current_bloom = 20000]_vars

\* the default weapon after its second shot
C14_Witness ==
    /\ call.op = "apply_shot_bloom"
    /\ accuracy = [AccuracyDefault EXCEPT !.current_bloom = 20000]

\* ---- C15 ------------------------------------------------------------------
\* min(speed / max_speed, 1) of f32 as a fraction <<numerator, denominator>>, for
\* speed >= 0: a division by zero gives +inf or NaN, and min(+inf, 1) = min(NaN, 1) = 1
SpeedRatio(speed, max_speed) ==
    IF max_speed = 0 THEN <<1, 1>> ELSE <<Min(speed, max_speed), max_speed>>

\* the total of the claim; the flag moving says when the movement term is added
ClaimedSpread(a, c, moving) ==
    LET r == SpeedRatio(c.movement_speed, c.max_speed)
        t0 == a.base_spread + a.current_bloom
        t1 == IF moving THEN t0 + (a.movement_penalty * r[1] * a.base_spread) \div (10 * r[2])
              ELSE t0
        t2 == IF c.is_airborne THEN (t1 * a.airborne_multiplier) \div 10 ELSE t1
        t3 == IF c.is_aiming THEN (t2 * a.ads_modifier) \div 10 ELSE t2
    IN  Min(a.max_spread, t3)

\* C15 as stated: the result is min(max_spread, T), T = base_spread + current_bloom,
\* plus (if moving) movement_penalty * min(speed/max_speed, 1) * base_spread, then
\* (if airborne) times airborne_multiplier, then (if aiming) times ads_modifier; the
\* result never exceeds max_spread.
C15_SpreadAsStated ==
    result.op = "calculate_total_spread" =>
       /\ result.value = ClaimedSpread(accuracy, call, call.is_moving)
       /\ result.value <= accuracy.max_spread

\* C15 amended: the movement term is added if moving and max_speed > 0.
C15_SpreadIfMaxSpeedPositive ==
    result.op = "calculate_total_spread" =>
       /\ result.value = ClaimedSpread(accuracy, call, call.is_moving /\ call.max_speed > 0)
       /\ result.value <= accuracy.max_spread

\* a moving, airborne, aiming shooter whose spread stays under the ceiling
C15_Witness ==
    /\ result.op = "calculate_total_spread"
    /\ call.is_moving /\ call.is_airborne /\ call.is_aiming
    /\ call.max_speed > 0 /\ call.movement_speed > 0
    /\ result.value < accuracy.max_spread

\* ---- C16 ------------------------------------------------------------------
Plain(a) == a.base_spread + a.current_bloom

C16_Precondition(a) ==
    /\ a.base_spread > 0
    /\ a.movement_penalty > 0
    /\ a.ads_modifier < 10
    /\ a.airborne_multiplier > 10
    /\ Plain(a) < a.max_spread

Only(c, flag) == \A f \in {"is_aiming", "is_moving", "is_airborne"} : c[f] <=> (f = flag)

\* C16: for base_spread > 0, movement_penalty > 0, ads_modifier < 1,
\* airborne_multiplier > 1 and base_spread + current_bloom < max_spread, the spread
\* with no modifier is base_spread + current_bloom, with only aiming it is strictly
\* smaller, with only moving at full speed strictly larger, with only airborne
\* strictly larger.
C16_ModifiersOrderSpread ==
    (result.op = "calculate_total_spread" /\ C16_Precondition(accuracy)) =>
       /\ Only(call, "none") => result.value = Plain(accuracy)
       /\ Only(call, "is_aiming") => result.value < Plain(accuracy)
       /\ (Only(call, "is_moving") /\ call.max_speed > 0
             /\ call.movement_speed = call.max_speed) => result.value > Plain(accuracy)
       /\ Only(call, "is_airborne") => result.value > Plain(accuracy)

\* a weapon with bloom inside the precondition, queried while moving at full speed
C16_Witness ==
    /\ result.op = "calculate_total_spread"
    /\ C16_Precondition(accuracy)
    /\ accuracy.current_bloom > 0
    /\ Only(call, "is_moving") /\ call.max_speed > 0 /\ call.movement_speed = call.max_speed
    /\ result.value > Plain(accuracy)

\* ---- C18 ------------------------------------------------------------------
\* 1000 * cos(theta) for the ricochet angles of the materials (milliradians); 644
\* stands for acos(0.8)
CosMilli(theta) ==
    CASE theta = 150 -> 989
      [] theta = 300 -> 955
      [] theta = 644 -> 800
      [] theta = 800 -> 697
      [] theta = 1500 -> 71

\* 5 * cos of the angle between the direction of flight and the inverted normal
ImpactCos5(c) == (5 * Dot(c.velocity.dir, Neg(c.surface_normal))) \div Length(c.velocity.dir)

\* C18: should_ricochet is true exactly when the angle between the velocity direction
\* and the inverted surface normal is strictly greater than ricochet_angle (its cosine
\* strictly smaller than cos(ricochet_angle)); so on a low-threshold surface a grazing
\* impact ricochets and a perpendicular one does not.
C18_RicochetIffAngleAboveThreshold ==
    result.op = "should_ricochet" =>
       /\ result.value <=> 200 * ImpactCos5(call) < CosMilli(call.surface.ricochet_angle)
       /\ (call.surface.ricochet_angle <= 300 /\ ImpactCos5(call) \in 0..3) => result.value
       /\ ImpactCos5(call) = 5 => ~result.value

\* a grazing impact has ricocheted off the default surface
C18_Witness ==
    /\ result.op = "should_ricochet"
    /\ call.surface = DefaultSurface
    /\ ImpactCos5(call) = 3
    /\ result.value

\* an impact exactly at the threshold angle has not ricocheted
C18_AtThreshold ==
    /\ result.op = "should_ricochet"
    /\ call.surface = Armour
    /\ ImpactCos5(call) = 4
    /\ ~result.value

\* ---- C19 ------------------------------------------------------------------
\* r is the mirror image of d about the plane with unit normal n: the normal
\* component is inverted, the tangential component is kept
Mirrored(d, n, r) ==
    /\ Dot(r, n) = -Dot(d, n)
    /\ r[1] - Dot(r, n) * n[1] = d[1] - Dot(d, n) * n[1]
    /\ r[2] - Dot(r, n) * n[2] = d[2] - Dot(d, n) * n[2]

C20_ExitKeepsDirectionAndTenth ==
    result.op = "calculate_exit_velocity" =>
       LET t == call.surface.thickness
           loss == call.surface.penetration_loss
       IN  /\ result.value.dir = call.velocity.dir
           /\ 100 * t * result.value.speed =
                 call.velocity.speed
                   * Max(100 * t - loss * Min(call.travel_distance, t), 10 * t)
           /\ result.value.speed > 0
           /\ 10 * result.value.speed >= call.velocity.speed

\* a slab that would take three times the speed leaves a tenth of it
C20_Witness ==
    /\ result.op = "calculate_exit_velocity"
    /\ call.surface.penetration_loss > 100
    /\ call.travel_distance >= call.surface.thickness
    /\ 10 * result.value.speed = call.velocity.speed

\* a partial crossing of a thick material
C20_PartialCrossing ==
    /\ result.op = "calculate_exit_velocity"
    /\ 0 < call.travel_distance /\ call.travel_distance < call.surface.thickness
    /\ 10 * result.value.speed > call.velocity.speed
    /\ result.value.speed < call.velocity.speed

\* ---- C21 ------------------------------------------------------------------
\* the lengths of the damage calls are whole metres
Metres(x) == x \div 100

\* C21: calculate_explosion_damage is 0 for distance >= radius and
\* base_damage * (1 - distance/radius)^falloff otherwise; so it is base_damage at
\* distance 0, 0 at distance = radius, and half of base_damage at half the radius
\* with falloff 1.
C21_DamageFalloff ==
    result.op = "calculate_explosion_damage" =>
       LET r == Metres(call.radius)
           d == Metres(call.distance)
           k == call.falloff \div 10
       IN  /\ call.distance >= call.radius => result.value = 0
           /\ call.distance < call.radius =>
                 result.value * Pow(r, k) = call.base_damage * Pow(r - d, k)
           /\ (call.distance = 0 /\ call.radius > 0) => result.value = call.base_damage
           /\ call.distance = call.radius => result.value = 0
           /\ (call.falloff = 10 /\ 2 * call.distance = call.radius /\ call.radius > 0) =>
                 2 * result.value = call.base_damage

\* the damage of 100 at half of the radius 10 m with falloff 1 is 50
C21_Witness ==
    /\ result.op = "calculate_explosion_damage"
    /\ call.base_damage = 100000 /\ call.distance = 500 /\ call.radius = 1000
    /\ call.falloff = 10
    /\ result.value = 50000

\* ---- C22 ------------------------------------------------------------------
DamageDistances == {c.distance : c \in DamageCalls}
DamageFalloffs == {c.falloff : c \in DamageCalls}

\* C22: for base_damage >= 0, radius > 0 and falloff > 0 the damage does not grow
\* with the distance, and at an interior distance the damage under a higher falloff
\* exponent is not higher.
C22_DamageMonotone ==
    (result.op = "calculate_explosion_damage" /\ call.base_damage >= 0
       /\ call.radius > 0 /\ call.falloff > 0) =>
       /\ \A d2 \in DamageDistances :
             d2 >= call.distance =>
                calculate_explosion_damage(call.base_damage, d2, call.radius, call.falloff)
                   <= result.value
       /\ (0 < call.distance /\ call.distance < call.radius) =>
             \A f2 \in DamageFalloffs :
                f2 >= call.falloff =>
                   calculate_explosion_damage(call.base_damage, call.distance,
                                              call.radius, f2) <= result.value

\* an interior distance where the quadratic falloff gives strictly less than the
\* linear one
C22_Witness ==
    /\ result.op = "calculate_explosion_damage"
    /\ call.falloff = 10 /\ call.base_damage > 0
    /\ 0 < call.distance /\ call.distance < call.radius
    /\ calculate_explosion_damage(call.base_damage, call.distance, call.radius, 20)
          < result.value

\* ---- C24 ------------------------------------------------------------------
\* C24: once apply_explosion_impulse has processed explosions of type Smoke or EMP
\* only, every affected body has the velocity it had before.
C24_SmokeAndEmpGiveNoImpulse ==
    (pc.impulse /\ \A i \in 1..Len(explosion_events) :
                      explosion_events[i].explosion_type \in {"Smoke", "EMP"}) =>
       \A b \in DOMAIN world : world[b].velocity = Bodies[b].velocity

\* the part of C24 that holds: an EMP alone moves nothing
C24_EmpGivesNoImpulse ==
    (pc.impulse /\ \A i \in 1..Len(explosion_events) :
                      explosion_events[i].explosion_type = "EMP") =>
       \A b \in DOMAIN world : world[b].velocity = Bodies[b].velocity

\* ---- C23 ------------------------------------------------------------------
GuidanceStep == call'.op = "update_guidance" /\ tick' = tick + 1

\* the target of the projectile is named but cannot be resolved
Unresolved(w, p) ==
    p.guidance.target # NoTarget
       /\ ~(p.guidance.target \in DOMAIN w /\ w[p.guidance.target].alive)

\* C23: in a tick in which the activation delay of a guided projectile has not yet
\* elapsed, or its target is absent, or its target cannot be resolved, update_guidance
\* leaves its velocity unchanged; the tick goes on for the other projectiles: the
\* guidance clock of every projectile advances, and a projectile past its delay whose
\* live target lies off its course (neither ahead nor straight behind) is steered.
C23_GuidanceNoOp ==
    [][GuidanceStep =>
         \A e \in GuidedIds :
            /\ (\/ world'[e].guidance.elapsed < world[e].guidance.delay
                \/ world[e].guidance.target = NoTarget
                \/ Unresolved(world, world[e]))
                  => world'[e].velocity = world[e].velocity
            /\ world'[e].guidance.elapsed = world[e].guidance.elapsed + Dt
            /\ (/\ world'[e].guidance.elapsed >= world[e].guidance.delay
                /\ world[e].guidance.target \in TargetIds
                /\ world[world[e].guidance.target].alive
                /\ AngleBetween(world[e].velocity.heading,
                                Bearing(world[e].translation,
                                        world[world[e].guidance.target].translation))
                      \notin {0, HalfTurn})
                  => world'[e].velocity.heading # world[e].velocity.heading]_vars

\* a tick has left a projectile with a destroyed target alone and has steered the other
C23_Witness ==
    /\ result.op = "update_guidance"
    /\ \E e \in GuidedIds, o \in GuidedIds :
          /\ world[e].guidance.elapsed >= world[e].guidance.delay
          /\ Unresolved(world, world[e])
          /\ e \notin result.steered
          /\ o \in result.steered

\* C25: the config flags gate the outcomes: while enable_ricochet is false no HitEvent
\* has ricocheted = true, and while enable_penetration is false no HitEvent has
\* penetrated = true.
C25_FlagsGateOutcomes ==
    \A i \in 1..Len(hit_events) :
       /\ hit_events[i].ricocheted => config.enable_ricochet
       /\ hit_events[i].penetrated => config.enable_penetration

\* with both flags off a fast projectile has met the metal wall at a grazing angle, which
\* would ricochet were the flag on, and the hit has stopped it
C25_Witness ==
    /\ ~config.enable_ricochet
    /\ ~config.enable_penetration
    /\ \E i \in 1..Len(hit_events) :
          /\ hit_events[i].target = 102
          /\ hit_events[i].velocity.speed = 400
          /\ should_ricochet(hit_events[i].velocity, hit_events[i].normal,
                             WallSurface(hit_events[i].target))
          /\ Stopped(hit_events[i])

\* C26: no HitEvent has both penetrated = true and ricocheted = true.
C26_PenetratedOrRicocheted ==
    \A i \in 1..Len(hit_events) :
       ~(hit_events[i].penetrated /\ hit_events[i].ricocheted)

\* with both flags on a projectile with the power to pierce the metal wall has
\* ricocheted off it (the event carries the velocity after the ricochet, half the 400 m/s)
C26_Witness ==
    /\ config.enable_ricochet
    /\ config.enable_penetration
    /\ \E i \in 1..Len(hit_events) :
          /\ hit_events[i].target = 102
          /\ hit_events[i].ricocheted
          /\ hit_events[i].velocity.speed >= 200

RemovalsOf(e) == {i \in 1..Len(commands) : commands[i].entity = e}
HitsOf(e) == {i \in 1..Len(hit_events) : hit_events[i].projectile = e}
StopsOf(e) == {i \in HitsOf(e) : Stopped(hit_events[i])}
ExplosionsOf(e) == {i \in 1..Len(explosion_events) : explosion_events[i].source = e}

\* C27: each projectile is resolved at most once: whatever the order of handle_collisions,
\* process_projectile_logic and process_hitscan within a tick, at most one removal is
\* requested for it and at most one terminal outcome (a stopping HitEvent or an
\* ExplosionEvent) is produced, and a Hitscan projectile yields at most one HitEvent.
C27_ResolvedAtMostOnce ==
    \A e \in Entities :
       /\ Cardinality(RemovalsOf(e)) <= 1
       /\ Cardinality(StopsOf(e)) + Cardinality(ExplosionsOf(e)) <= 1
       /\ (Alive(e) /\ world[e].logic.kind = "Hitscan") => Cardinality(HitsOf(e)) <= 1

\* the parts of C27 taken one at a time
C27_OneRemoval == \A e \in Entities : Cardinality(RemovalsOf(e)) <= 1
C27_OneTerminalOutcome ==
    \A e \in Entities : Cardinality(StopsOf(e)) + Cardinality(ExplosionsOf(e)) <= 1
C27_OneHitscanHit ==
    \A e \in Entities :
       (Alive(e) /\ world[e].logic.kind = "Hitscan") => Cardinality(HitsOf(e)) <= 1
\* process_hitscan alone, before any other system of the tick has queued a command
C27_OneRemovalByHitscan ==
    \A e \in Entities :
       (pc.chain <= 1 /\ ~pc.collisions) => Cardinality(RemovalsOf(e)) <= 1

\* the fuse of a Timed projectile has triggered
Triggered(e) ==
    /\ Alive(e)
    /\ world[e].logic.kind = "Timed"
    /\ FuseExpired(world[e].logic.elapsed, world[e].logic.fuse)

\* C28: a projectile emits at most one ExplosionEvent in its lifetime: a projectile whose
\* fuse has triggered is in the world only between process_projectile_logic and the sync
\* point that follows it, with its removal queued, so no later run of the projectile
\* logic finds it; and no tick holds two ExplosionEvents of one projectile.
C28_DetonatesOnce ==
    \A e \in Entities :
       /\ Triggered(e) => (pc.chain = 2 /\ QueuedBy(e, "trigger_explosion"))
       /\ Cardinality(ExplosionsOf(e)) <= 1

\* a projectile has detonated in a tick after the one it was fired in and is gone while
\* its ExplosionEvent is still to be read
C28_Witness ==
    /\ pc.chain >= 3
    /\ tick >= 1
    /\ \E e \in Entities : ~Alive(e) /\ ExplosionsOf(e) # {}

\* the walls on the closed segment from a to b
OnSegment(a, b) == {w \in Walls : Min(a, b) <= w.x /\ w.x <= Max(a, b)}

\* the step writes a HitEvent of projectile e on wall w
HitOn(e, w) ==
    \E i \in NewHitEvents : hit_events'[i].projectile = e /\ hit_events'[i].target = w.id

\* the step writes a HitEvent of projectile e on wall w that halts or turns it there
HaltedAt(e, w) ==
    \E i \in NewHitEvents :
       /\ hit_events'[i].projectile = e
       /\ hit_events'[i].target = w.id
       /\ ~hit_events'[i].penetrated

\* C29: no surface is passed without a hit: when handle_collisions sweeps the segment a
\* projectile has travelled in the tick, every surface on it that the projectile reaches
\* (no nearer surface has stopped or deflected it) produces a HitEvent, also a second
\* surface behind one it has penetrated.
C29_NoSurfacePassed ==
    [][(CollisionStep /\ pc.chain >= 1) =>
         \A e \in Entities :
            (Alive(e) /\ world[e].previous_position # world[e].translation) =>
               \A w \in OnSegment(world[e].previous_position, world[e].translation) :
                  (\A v \in OnSegment(world[e].previous_position, w.x) :
                      v # w => ~HaltedAt(e, v))
                     => HitOn(e, w)]_vars

\* the same for the nearest surface alone, which the sweep does report
C29_NearestSurfaceHit ==
    [][(CollisionStep /\ pc.chain >= 1) =>
         \A e \in Entities :
            (Alive(e) /\ world[e].previous_position # world[e].translation) =>
               \A w \in cast_ray(world[e].previous_position, world[e].translation) :
                  HitOn(e, w)]_vars

\* the entities of a pool's available list
Pooled(pool) == {pool.available[i] : i \in 1..Len(pool.available)}

NoDuplicates(pool) == Cardinality(Pooled(pool)) = Len(pool.available)

\* C30: after any sequence of frames of update_tracers / cleanup_expired_effects and of
\* spawn_tracer / spawn_decal calls no entity appears more than once in
\* TracerPool.available or DecalPool.available, and the entity a spawn has taken from a
\* pool for reuse is, while it is shown, not available in it.
C30_PoolsHoldNoDuplicates ==
    /\ NoDuplicates(tracer_pool)
    /\ NoDuplicates(decal_pool)
    /\ (result.op = "spawn_tracer" /\ result.reused /\ world[result.entity].visible)
          => result.entity \notin Pooled(tracer_pool)
    /\ (result.op = "spawn_decal" /\ result.reused /\ world[result.entity].visible)
          => result.entity \notin Pooled(decal_pool)

\* the claim holds for a pool that keeps at most one entity, the Default pool included
C30_SmallPoolsHoldNoDuplicates ==
    /\ tracer_pool.max_size <= 1 => NoDuplicates(tracer_pool)
    /\ decal_pool.max_size <= 1 => NoDuplicates(decal_pool)

====
